---- MODULE Spec2Model ----
(***************************************************************************)
(* The spiking-neuron populations of BP_STDP/in_of_simulator/population.py *)
(* as a state machine: one population object, its constructor, forward()   *)
(* and reset(), for the six classes InputPopulation, IFPopulation,         *)
(* HomoeostasisLIFPopulation, LIFPopulation2, LIFPopulation and            *)
(* DiehlAndCookPopulation.                                                 *)
(*                                                                         *)
(* Numbers.  Potentials, thresholds and traces are fixed-point integers in *)
(* units of 1/Scale; times (dt, tau_ref, refrac), spikes, spike counts and *)
(* the values of an input vector are whole integers.  The time constants   *)
(* tau_rc, tau_tr and tau_theta are kept in units of 1/ln 2, so that       *)
(* exp(-dt/tau) = 2^-(dt/tau); every constructor call of the model uses    *)
(* tau = dt, a decay factor of exactly 1/2.  Scale = 10 * 2^MaxSteps makes *)
(* the repeated halving exact for as many steps as the model takes, and    *)
(* the thresholds 0.9 and 12.5 of STDP/model.py whole numbers of units.    *)
(***************************************************************************)
EXTENDS Integers, Sequences, FiniteSets, TLC

\* The number of forward() calls of one run.
MaxSteps == 3

\* One unit of potential in fixed point.
Scale == 10 * 2^MaxSteps

Fx(n) == n * Scale

\* n tenths of a unit of potential.
Tenths(n) == n * (Scale \div 10)

\* The arguments the constructor calls of the model draw from.
NeuronCounts == {-1, 0, 1, 2}
\* <<dt, tau_ref>>: refractory periods of 0, 1 and ceil(3/2) = 2 steps.
Timings == {<<1, 0>>, <<1, 1>>, <<2, 3>>}
DtVals == {tm[1] : tm \in Timings}
RestVals == {1}
\* v_th = 0 puts the threshold at or below rest, v_th = 2 above it.
VthVals == {0, 2}
ThetaVals == {1}
ThetaPlusVals == {1}
ScaleTrVals == {2}
TrainedThetaVals == {1}

\* The values of one entry of an input vector: a weighted input current of a
\* thresholded population,
XVals == {-2, 0, 2}
\* of an input population (a spike train, or an analog value passed through),
SpikeVals == {-2, 0, 1}
\* and of an IFPopulation fed with unweighted spikes.
UnitVals == {0, 1}

VARIABLES pc, kind, neurons, hp, attrs, v, refrac, s, x, spikecount, theta,
          t, last, out, drive

vars == <<pc, kind, neurons, hp, attrs, v, refrac, s, x, spikecount, theta,
          t, last, out, drive>>

Thresholded == {"IF", "HLIF", "LIF2", "LIF", "DC"}

--------------------------------------------------------------------------
\* torch: the tensor operations the populations use.

\* torch.zeros(n)
Zeros(n) == [i \in 1..n |-> 0]

\* Tensor.fill_(c)
Fill(n, c) == [i \in 1..n |-> c]

\* Broadcasting of an operand of length l against a vector of n entries that
\* is written in place: the operand fits when it has n entries or one.
Fits(n, inp) == Len(inp) = n \/ Len(inp) = 1

\* Entry i of a broadcast operand.
At(inp, i) == IF Len(inp) = 1 THEN inp[1] ELSE inp[i]

\* Tensor.masked_fill_(mask, c)
MaskedFill(vec, mask, c) == [i \in 1..Len(vec) |-> IF mask[i] # 0 THEN c ELSE vec[i]]

\* torch.exp(-dt / tau) * y, with tau in units of 1/ln 2.
MulExp(dt, tau, y) == y \div (2^(dt \div tau))

\* The input vectors handed to forward() of a population of n neurons: the
\* vectors of n entries, the vectors of one entry (a scalar broadcasts the same
\* way), and vectors of the lengths 0, 2 and n + 1 where those do not fit.
InputsOver(n, vals) ==
    [1..n -> vals] \cup [1..1 -> vals]
        \cup {Zeros(l) : l \in {0, 2, n + 1} \ {n, 1}}

Inputs(n) == InputsOver(n, XVals)

--------------------------------------------------------------------------
\* The object: its buffers and attributes as one record.

Self ==
    [neurons |-> neurons, hp |-> hp, attrs |-> attrs, v |-> v,
     refrac |-> refrac, s |-> s, x |-> x, spikecount |-> spikecount,
     theta |-> theta]

NoHp ==
    [dt |-> 0, v_th |-> 0, rest |-> 0, tau_ref |-> 0, tau_rc |-> 0,
     tau_tr |-> 0, scale_tr |-> 0, theta |-> 0, theta_plus |-> 0,
     tau_theta |-> 0, threshold |-> 0, traces |-> FALSE,
     count_spike |-> FALSE, frozen_th |-> FALSE]

NoObject ==
    [neurons |-> 0, hp |-> NoHp, attrs |-> {}, v |-> <<>>, refrac |-> <<>>,
     s |-> <<>>, x |-> <<>>, spikecount |-> <<>>, theta |-> <<>>]

Install(o) ==
    /\ neurons' = o.neurons
    /\ hp' = o.hp
    /\ attrs' = o.attrs
    /\ v' = o.v
    /\ refrac' = o.refrac
    /\ s' = o.s
    /\ x' = o.x
    /\ spikecount' = o.spikecount
    /\ theta' = o.theta

Ok(o) == [self |-> o, ret |-> "ok", spiked |-> TRUE]

\* An exception; spiked tells whether the call had written s before it.
Raise(o, spiked) == [self |-> o, ret |-> "error", spiked |-> spiked]

Init ==
    /\ pc = "start"
    /\ kind = "none"
    /\ neurons = 0
    /\ hp = NoHp
    /\ attrs = {}
    /\ v = <<>>
    /\ refrac = <<>>
    /\ s = <<>>
    /\ x = <<>>
    /\ spikecount = <<>>
    /\ theta = <<>>
    /\ t = 0
    /\ last = [op |-> "none", ret |-> "none", x |-> <<>>]
    /\ out = <<>>
    /\ drive = [const |-> TRUE, x |-> <<>>]

--------------------------------------------------------------------------
\* Statements that several forward() methods share, word for word.

\* The mutant of Leak: the potential decays towards 0, not towards rest.
LeakToZero(o) ==
    [i \in 1..o.neurons |-> MulExp(o.hp.dt, o.hp.tau_rc, o.v[i])]

\* self.v[:] = torch.exp(-self.dt / self.tau_rc) * (self.v - self.rest) + self.rest
Leak(o) ==
    [i \in 1..o.neurons |->
        MulExp(o.hp.dt, o.hp.tau_rc, o.v[i] - o.hp.rest) + o.hp.rest]

\* The mutant of Integrate: the input is added whatever refrac holds.
IntegrateAlways(o, v0, inp) ==
    [i \in 1..o.neurons |-> v0[i] + Fx(At(inp, i))]

\* self.v += (self.refrac <= 0).float() * x
Integrate(o, v0, inp) ==
    [i \in 1..o.neurons |->
        v0[i] + (IF o.refrac[i] <= 0 THEN 1 ELSE 0) * Fx(At(inp, i))]

\* The mutant of Tick: refrac is counted down by two dt a step.
TickTwice(o) == [i \in 1..o.neurons |-> o.refrac[i] - 2 * o.hp.dt]

\* self.refrac -= self.dt
Tick(o) == [i \in 1..o.neurons |-> o.refrac[i] - o.hp.dt]

\* The mutant of Trace: the scaled spike is added first and decays with the rest.
TraceAddFirst(o, s1) ==
    [i \in 1..o.neurons |->
        MulExp(o.hp.dt, o.hp.tau_tr, o.x[i] + o.hp.scale_tr * s1[i])]

\* self.x[:] *= torch.exp(-self.dt / self.tau_tr); self.x[:] += self.scale_tr * self.s
Trace(o, s1) ==
    [i \in 1..o.neurons |->
        MulExp(o.hp.dt, o.hp.tau_tr, o.x[i]) + o.hp.scale_tr * s1[i]]

--------------------------------------------------------------------------
\* InputPopulation

InputPopulation_reset(o) ==
    IF "x" \in o.attrs
    THEN Ok([o EXCEPT !.x = Fill(o.neurons, 0)])
    ELSE Raise(o, FALSE)

\* An exception leaves the object as far as the constructor had built it.
InputPopulation_init(n, dt, traces, tau_tr, scale_tr, count_spike) ==
    LET o0 == [NoObject EXCEPT
                 !.neurons = n,
                 !.hp = [NoHp EXCEPT !.dt = dt, !.traces = traces,
                                     !.count_spike = count_spike],
                 !.attrs = {"count_spike"}]
    IN
    IF n < 0 THEN Raise(o0, FALSE)
    ELSE
    LET o1 == [o0 EXCEPT
                 !.hp = [@ EXCEPT !.tau_tr = IF traces THEN tau_tr ELSE 0,
                                  !.scale_tr = IF traces THEN scale_tr ELSE 0],
                 !.attrs = {"count_spike", "s"}
                              \cup (IF traces THEN {"x"} ELSE {}),
                 !.s = Zeros(n),
                 !.x = IF traces THEN Zeros(n) ELSE <<>>]
        r == InputPopulation_reset(o1)
    IN  IF r.ret = "error" THEN Raise(o1, FALSE)
        ELSE IF count_spike
             THEN Ok([r.self EXCEPT !.attrs = @ \cup {"spikecount"},
                                    !.spikecount = Zeros(n)])
             ELSE Ok(r.self)

InputPopulation_forward(o, inp) ==
    IF ~Fits(o.neurons, inp) THEN Raise(o, FALSE)
    ELSE
    LET n == o.neurons
        s1 == [i \in 1..n |-> At(inp, i)]
        x1 == IF o.hp.traces THEN Trace(o, s1) ELSE o.x
        c1 == IF o.hp.count_spike
              THEN [i \in 1..n |-> o.spikecount[i] + s1[i]]
              ELSE o.spikecount
    IN  Ok([o EXCEPT !.s = s1, !.x = x1, !.spikecount = c1])

--------------------------------------------------------------------------
\* IFPopulation

IFPopulation_init(n, dt, v_th, rest, tau_ref, count_spike) ==
    IF n < 0 THEN Raise(NoObject, FALSE)
    ELSE
    Ok([NoObject EXCEPT
          !.neurons = n,
          !.hp = [NoHp EXCEPT !.dt = dt, !.v_th = v_th, !.rest = rest,
                              !.tau_ref = tau_ref,
                              !.count_spike = count_spike],
          !.attrs = {"v", "s"}
                       \cup (IF count_spike THEN {"count_spike", "spikecount"} ELSE {}),
          !.v = Fill(n, rest),
          !.refrac = Zeros(n),
          !.s = Zeros(n),
          !.spikecount = IF count_spike THEN Zeros(n) ELSE <<>>])

\* The mutant of IFPopulation_reset: reset() clears refrac as well.
IFPopulation_reset_refrac(o) ==
    Ok([o EXCEPT !.v = Fill(o.neurons, o.hp.rest),
                 !.refrac = Fill(o.neurons, 0)])

IFPopulation_reset(o) ==
    Ok([o EXCEPT !.v = Fill(o.neurons, o.hp.rest)])

\* The mutant of IFPopulation_count: the count is assigned, not accumulated.
IFPopulation_count_assign(o, s1) ==
    IF "count_spike" \notin o.attrs THEN Raise(o, TRUE)
    ELSE IF o.hp.count_spike
         THEN Ok([o EXCEPT !.spikecount = s1])
         ELSE Ok(o)

\* if self.count_spike: self.spikecount += self.s
\* count_spike is an attribute only of a population built with count_spike=True.
IFPopulation_count(o, s1) ==
    IF "count_spike" \notin o.attrs THEN Raise(o, TRUE)
    ELSE IF o.hp.count_spike
         THEN Ok([o EXCEPT !.spikecount =
                     [i \in 1..o.neurons |-> o.spikecount[i] + s1[i]]])
         ELSE Ok(o)

\* The mutant of IFPopulation_forward: a potential equal to v_th does not spike.
IFPopulation_forward_strict(o, inp) ==
    IF ~Fits(o.neurons, inp) THEN Raise(o, FALSE)
    ELSE
    LET v1 == Integrate(o, o.v, inp)
        r1 == Tick(o)
        s1 == [i \in 1..o.neurons |-> IF v1[i] > o.hp.v_th THEN 1 ELSE 0]
        r2 == MaskedFill(r1, s1, o.hp.tau_ref)
        v2 == MaskedFill(v1, s1, o.hp.rest)
    IN  IFPopulation_count([o EXCEPT !.v = v2, !.refrac = r2, !.s = s1], s1)

IFPopulation_forward(o, inp) ==
    IF ~Fits(o.neurons, inp) THEN Raise(o, FALSE)
    ELSE
    LET v1 == Integrate(o, o.v, inp)
        r1 == Tick(o)
        s1 == [i \in 1..o.neurons |-> IF v1[i] >= o.hp.v_th THEN 1 ELSE 0]
        r2 == MaskedFill(r1, s1, o.hp.tau_ref)
        v2 == MaskedFill(v1, s1, o.hp.rest)
    IN  IFPopulation_count([o EXCEPT !.v = v2, !.refrac = r2, !.s = s1], s1)

--------------------------------------------------------------------------
\* HomoeostasisLIFPopulation

HomoeostasisLIFPopulation_init(n, dt, tau_rc, v_th, theta_plus, tau_theta, rest, tau_ref, frozen_threshold, count_spike) ==
    IF n < 0 THEN Raise(NoObject, FALSE)
    ELSE
    Ok([NoObject EXCEPT
          !.neurons = n,
          !.hp = [NoHp EXCEPT !.dt = dt, !.tau_rc = tau_rc, !.v_th = v_th,
                              !.rest = rest, !.tau_ref = tau_ref,
                              !.threshold = v_th, !.theta_plus = theta_plus,
                              !.tau_theta = tau_theta,
                              !.frozen_th = frozen_threshold,
                              !.count_spike = count_spike],
          !.attrs = {"v", "s", "theta", "count_spike"}
                       \cup (IF count_spike THEN {"spikecount"} ELSE {}),
          !.v = Fill(n, rest),
          !.refrac = Zeros(n),
          !.s = Zeros(n),
          !.theta = Zeros(n),
          !.spikecount = IF count_spike THEN Zeros(n) ELSE <<>>])

HomoeostasisLIFPopulation_reset(o) ==
    Ok([o EXCEPT !.v = Fill(o.neurons, o.hp.rest),
                 !.spikecount = IF o.hp.count_spike
                                THEN Fill(o.neurons, 0) ELSE @])

\* The mutant of HomoeostasisLIFPopulation_theta: theta of a neuron without a
\* spike is multiplied by exp(-dt/tau_theta).
HomoeostasisLIFPopulation_theta_decay(o, s1) ==
    IF o.hp.frozen_th = FALSE
    THEN [i \in 1..o.neurons |->
             IF s1[i] > 0 THEN o.theta[i] + o.hp.theta_plus
             ELSE MulExp(o.hp.dt, o.hp.tau_theta, o.theta[i])]
    ELSE o.theta

\* The mutant of HomoeostasisLIFPopulation_theta: frozen_th is not consulted.
HomoeostasisLIFPopulation_theta_unfrozen(o, s1) ==
    [i \in 1..o.neurons |->
        o.theta[i] + (IF s1[i] > 0 THEN 1 ELSE 0) * o.hp.theta_plus
                   + (IF s1[i] < 1 THEN 1 ELSE 0)
                       * MulExp(o.hp.dt, o.hp.tau_theta, Fx(1))]

\* if self.frozen_th == False: the two updates of theta
HomoeostasisLIFPopulation_theta(o, s1) ==
    IF o.hp.frozen_th = FALSE
    THEN [i \in 1..o.neurons |->
             o.theta[i] + (IF s1[i] > 0 THEN 1 ELSE 0) * o.hp.theta_plus
                        + (IF s1[i] < 1 THEN 1 ELSE 0)
                            * MulExp(o.hp.dt, o.hp.tau_theta, Fx(1))]
    ELSE o.theta

HomoeostasisLIFPopulation_forward(o, inp) ==
    LET n == o.neurons
        v0 == Leak(o)
    IN  IF ~Fits(n, inp) THEN Raise([o EXCEPT !.v = v0], FALSE)
        ELSE
        LET v1 == Integrate(o, v0, inp)
            r1 == Tick(o)
            s1 == [i \in 1..n |->
                      IF v1[i] >= o.hp.v_th + o.theta[i] THEN 1 ELSE 0]
            c1 == IF o.hp.count_spike
                  THEN [i \in 1..n |->
                           o.spikecount[i] + (IF s1[i] > 0 THEN 1 ELSE 0)]
                  ELSE o.spikecount
            th1 == HomoeostasisLIFPopulation_theta(o, s1)
            r2 == MaskedFill(r1, s1, o.hp.tau_ref)
            v2 == MaskedFill(v1, s1, o.hp.rest)
        IN  Ok([o EXCEPT !.v = v2, !.refrac = r2, !.s = s1,
                         !.spikecount = c1, !.theta = th1])

--------------------------------------------------------------------------
\* LIFPopulation2

LIFPopulation2_init(n, dt, tau_rc, v_th, rest, tau_ref) ==
    IF n < 0 THEN Raise(NoObject, FALSE)
    ELSE
    Ok([NoObject EXCEPT
          !.neurons = n,
          !.hp = [NoHp EXCEPT !.dt = dt, !.tau_rc = tau_rc, !.v_th = v_th,
                              !.rest = rest, !.tau_ref = tau_ref],
          !.attrs = {"v", "s", "spikecount"},
          !.v = Fill(n, rest),
          !.refrac = Zeros(n),
          !.s = Zeros(n),
          !.spikecount = Zeros(n)])

\* The mutant of LIFPopulation2_reset: reset() leaves the spike count.
LIFPopulation2_reset_keep_count(o) ==
    Ok([o EXCEPT !.v = Fill(o.neurons, o.hp.rest)])

LIFPopulation2_reset(o) ==
    Ok([o EXCEPT !.v = Fill(o.neurons, o.hp.rest),
                 !.spikecount = Fill(o.neurons, 0)])

\* The mutant of LIFPopulation2_forward: the spike test is added to s
\* (self.s += ...) where the code assigns it (self.s[:] = ...).
LIFPopulation2_forward_add_s(o, inp) ==
    LET n == o.neurons
        v0 == Leak(o)
    IN  IF ~Fits(n, inp) THEN Raise([o EXCEPT !.v = v0], FALSE)
        ELSE
        LET v1 == Integrate(o, v0, inp)
            r1 == Tick(o)
            s1 == [i \in 1..n |->
                      o.s[i] + (IF v1[i] >= o.hp.v_th THEN 1 ELSE 0)]
            c1 == [i \in 1..n |->
                      o.spikecount[i] + (IF s1[i] > 0 THEN 1 ELSE 0)]
            r2 == MaskedFill(r1, s1, o.hp.tau_ref)
            v2 == MaskedFill(v1, s1, o.hp.rest)
        IN  Ok([o EXCEPT !.v = v2, !.refrac = r2, !.s = s1, !.spikecount = c1])

LIFPopulation2_forward(o, inp) ==
    LET n == o.neurons
        v0 == Leak(o)
    IN  IF ~Fits(n, inp) THEN Raise([o EXCEPT !.v = v0], FALSE)
        ELSE
        LET v1 == Integrate(o, v0, inp)
            r1 == Tick(o)
            s1 == [i \in 1..n |-> IF v1[i] >= o.hp.v_th THEN 1 ELSE 0]
            c1 == [i \in 1..n |->
                      o.spikecount[i] + (IF s1[i] > 0 THEN 1 ELSE 0)]
            r2 == MaskedFill(r1, s1, o.hp.tau_ref)
            v2 == MaskedFill(v1, s1, o.hp.rest)
        IN  Ok([o EXCEPT !.v = v2, !.refrac = r2, !.s = s1, !.spikecount = c1])

--------------------------------------------------------------------------
\* LIFPopulation

LIFPopulation_init(n, dt, tau_rc, v_th, th, rest, tau_ref) ==
    IF n < 0 THEN Raise(NoObject, FALSE)
    ELSE
    Ok([NoObject EXCEPT
          !.neurons = n,
          !.hp = [NoHp EXCEPT !.dt = dt, !.tau_rc = tau_rc, !.v_th = v_th,
                              !.theta = th, !.rest = rest, !.tau_ref = tau_ref],
          !.attrs = {"v", "s"},
          !.v = Fill(n, rest),
          !.refrac = Zeros(n),
          !.s = Zeros(n)])

LIFPopulation_reset(o) ==
    Ok([o EXCEPT !.v = Fill(o.neurons, o.hp.rest)])

\* The mutant of LIFPopulation_forward: the reset of refrac and v is deferred
\* to the next step (the masks are the spikes of the step before).
LIFPopulation_forward_deferred(o, inp) ==
    LET n == o.neurons
        v0 == Leak(o)
    IN  IF ~Fits(n, inp) THEN Raise([o EXCEPT !.v = v0], FALSE)
        ELSE
        LET v1 == Integrate(o, v0, inp)
            r1 == Tick(o)
            s1 == [i \in 1..n |->
                      IF v1[i] >= o.hp.v_th + o.hp.theta THEN 1 ELSE 0]
            r2 == MaskedFill(r1, o.s, o.hp.tau_ref)
            v2 == MaskedFill(v1, o.s, o.hp.rest)
        IN  Ok([o EXCEPT !.v = v2, !.refrac = r2, !.s = s1])

LIFPopulation_forward(o, inp) ==
    LET n == o.neurons
        v0 == Leak(o)
    IN  IF ~Fits(n, inp) THEN Raise([o EXCEPT !.v = v0], FALSE)
        ELSE
        LET v1 == Integrate(o, v0, inp)
            r1 == Tick(o)
            s1 == [i \in 1..n |->
                      IF v1[i] >= o.hp.v_th + o.hp.theta THEN 1 ELSE 0]
            r2 == MaskedFill(r1, s1, o.hp.tau_ref)
            v2 == MaskedFill(v1, s1, o.hp.rest)
        IN  Ok([o EXCEPT !.v = v2, !.refrac = r2, !.s = s1])

--------------------------------------------------------------------------
\* DiehlAndCookPopulation

\* The mutant of DiehlAndCookPopulation_reset: the trace is decayed by reset()
\* where the code zeroes it.
DiehlAndCookPopulation_reset_decay(o) ==
    IF "x" \in o.attrs
    THEN Ok([o EXCEPT !.v = Fill(o.neurons, o.hp.rest),
                      !.x = [i \in 1..o.neurons |->
                                MulExp(o.hp.dt, o.hp.tau_tr, o.x[i])]])
    ELSE Raise([o EXCEPT !.v = Fill(o.neurons, o.hp.rest)], FALSE)

DiehlAndCookPopulation_reset(o) ==
    IF "x" \in o.attrs
    THEN Ok([o EXCEPT !.v = Fill(o.neurons, o.hp.rest),
                      !.x = Fill(o.neurons, 0)])
    ELSE Raise([o EXCEPT !.v = Fill(o.neurons, o.hp.rest)], FALSE)

DiehlAndCookPopulation_init(n, dt, tau_rc, v_th, th, rest, tau_ref, traces, tau_tr, scale_tr) ==
    IF n < 0 THEN Raise(NoObject, FALSE)
    ELSE
    LET o1 == [NoObject EXCEPT
                 !.neurons = n,
                 !.hp = [NoHp EXCEPT !.dt = dt, !.tau_rc = tau_rc, !.v_th = v_th,
                                     !.theta = th, !.rest = rest,
                                     !.tau_ref = tau_ref, !.traces = traces,
                                     !.tau_tr = IF traces THEN tau_tr ELSE 0,
                                     !.scale_tr = IF traces THEN scale_tr ELSE 0],
                 !.attrs = {"v", "s"} \cup (IF traces THEN {"x"} ELSE {}),
                 !.v = Zeros(n),
                 !.refrac = Zeros(n),
                 !.s = Zeros(n),
                 !.x = IF traces THEN Zeros(n) ELSE <<>>]
        r == DiehlAndCookPopulation_reset(o1)
    IN  IF r.ret = "error" THEN Raise(NoObject, FALSE) ELSE Ok(r.self)

\* The mutant of DiehlAndCookPopulation_forward: a spike leaves v where it is.
DiehlAndCookPopulation_forward_keep_v(o, inp) ==
    LET n == o.neurons
        v0 == Leak(o)
    IN  IF ~Fits(n, inp) THEN Raise([o EXCEPT !.v = v0], FALSE)
        ELSE
        LET v1 == Integrate(o, v0, inp)
            r1 == Tick(o)
            s1 == [i \in 1..n |->
                      IF v1[i] >= o.hp.v_th + o.hp.theta THEN 1 ELSE 0]
            r2 == MaskedFill(r1, s1, o.hp.tau_ref)
            v2 == v1
            o2 == [o EXCEPT !.v = v2, !.refrac = r2, !.s = s1]
        IN  Ok([o2 EXCEPT !.x = IF o.hp.traces THEN Trace(o, s1) ELSE @])

DiehlAndCookPopulation_forward(o, inp) ==
    LET n == o.neurons
        v0 == Leak(o)
    IN  IF ~Fits(n, inp) THEN Raise([o EXCEPT !.v = v0], FALSE)
        ELSE
        LET v1 == Integrate(o, v0, inp)
            r1 == Tick(o)
            s1 == [i \in 1..n |->
                      IF v1[i] >= o.hp.v_th + o.hp.theta THEN 1 ELSE 0]
            r2 == MaskedFill(r1, s1, o.hp.tau_ref)
            v2 == MaskedFill(v1, s1, o.hp.rest)
            o2 == [o EXCEPT !.v = v2, !.refrac = r2, !.s = s1]
        IN  Ok([o2 EXCEPT !.x = IF o.hp.traces THEN Trace(o, s1) ELSE @])

--------------------------------------------------------------------------
\* The calls of a run.

\* A constructor call: the object exists when the constructor returns.
Construct(k, res) ==
    /\ pc = "start"
    /\ \E r \in {res} :
           /\ pc' = IF r.ret = "ok" THEN "live" ELSE "failed"
           /\ kind' = k
           /\ Install(r.self)
           /\ last' = [op |-> "new", ret |-> r.ret, x |-> <<>>]
           /\ UNCHANGED <<t, out, drive>>

\* A forward() call: one simulation step.  drive holds the input vector for
\* as long as every forward() call of the run was given the same one.
Step(k, inp, res) ==
    /\ pc = "live"
    /\ kind = k
    /\ t < MaxSteps
    /\ \E r \in {res} :
           /\ Install(r.self)
           /\ t' = t + 1
           /\ last' = [op |-> "forward", ret |-> r.ret, x |-> inp]
           /\ out' = IF r.spiked THEN Append(out, r.self.s) ELSE out
           /\ drive' = IF t = 0 THEN [const |-> TRUE, x |-> inp]
                        ELSE IF drive.const /\ drive.x = inp THEN drive
                        ELSE [const |-> FALSE, x |-> <<>>]
           /\ UNCHANGED <<pc, kind>>

\* A reset() call.
Clear(k, res) ==
    /\ pc = "live"
    /\ kind = k
    /\ \E r \in {res} :
           /\ Install(r.self)
           /\ last' = [op |-> "reset", ret |-> r.ret, x |-> <<>>]
           /\ UNCHANGED <<pc, kind, t, out, drive>>

NewInput ==
    \E n \in NeuronCounts, dt \in DtVals, traces \in BOOLEAN,
       scale_tr \in ScaleTrVals, count_spike \in BOOLEAN :
        Construct("Input",
                  InputPopulation_init(n, dt, traces, dt, Fx(scale_tr), count_spike))

NewIF ==
    \E n \in NeuronCounts, tm \in Timings, v_th \in VthVals, rest \in RestVals,
       count_spike \in BOOLEAN :
        Construct("IF",
                  IFPopulation_init(n, tm[1], Fx(v_th), Fx(rest), tm[2], count_spike))

NewHLIF ==
    \E n \in NeuronCounts, tm \in Timings, v_th \in VthVals, rest \in RestVals,
       theta_plus \in ThetaPlusVals, frozen \in BOOLEAN, count_spike \in BOOLEAN :
        Construct("HLIF",
                  HomoeostasisLIFPopulation_init(n, tm[1], tm[1], Fx(v_th),
                                                 Fx(theta_plus), tm[1], Fx(rest),
                                                 tm[2], frozen, count_spike))

NewLIF2 ==
    \E n \in NeuronCounts, tm \in Timings, v_th \in VthVals, rest \in RestVals :
        Construct("LIF2",
                  LIFPopulation2_init(n, tm[1], tm[1], Fx(v_th), Fx(rest), tm[2]))

NewLIF ==
    \E n \in NeuronCounts, tm \in Timings, v_th \in VthVals, th \in ThetaVals,
       rest \in RestVals :
        Construct("LIF",
                  LIFPopulation_init(n, tm[1], tm[1], Fx(v_th), Fx(th), Fx(rest),
                                     tm[2]))

NewDC ==
    \E n \in NeuronCounts, tm \in Timings, v_th \in VthVals, th \in ThetaVals,
       rest \in RestVals, traces \in BOOLEAN, scale_tr \in ScaleTrVals :
        Construct("DC",
                  DiehlAndCookPopulation_init(n, tm[1], tm[1], Fx(v_th), Fx(th),
                                              Fx(rest), tm[2], traces, tm[1],
                                              Fx(scale_tr)))

\* Diehl2015_Inference.__init__: the trained thresholds replace theta of the
\* frozen excitatory population before the first step.
SetTrainedTheta ==
    /\ pc = "live"
    /\ kind = "HLIF"
    /\ hp.frozen_th
    /\ hp.count_spike
    /\ last.op = "new"
    /\ \E c \in TrainedThetaVals : theta' = Fill(neurons, Fx(c))
    /\ last' = [op |-> "set_theta", ret |-> "ok", x |-> <<>>]
    /\ UNCHANGED <<pc, kind, neurons, hp, attrs, v, refrac, s, x, spikecount,
                   t, out, drive>>

ForwardInput ==
    \E inp \in InputsOver(neurons, SpikeVals) :
        Step("Input", inp, InputPopulation_forward(Self, inp))

ForwardIF ==
    \E inp \in Inputs(neurons) : Step("IF", inp, IFPopulation_forward(Self, inp))

ForwardHLIF ==
    \E inp \in Inputs(neurons) :
        Step("HLIF", inp, HomoeostasisLIFPopulation_forward(Self, inp))

ForwardLIF2 ==
    \E inp \in Inputs(neurons) : Step("LIF2", inp, LIFPopulation2_forward(Self, inp))

ForwardLIF ==
    \E inp \in Inputs(neurons) : Step("LIF", inp, LIFPopulation_forward(Self, inp))

ForwardDC ==
    \E inp \in Inputs(neurons) :
        Step("DC", inp, DiehlAndCookPopulation_forward(Self, inp))

ResetInput == Clear("Input", InputPopulation_reset(Self))

ResetIF == Clear("IF", IFPopulation_reset(Self))

ResetHLIF == Clear("HLIF", HomoeostasisLIFPopulation_reset(Self))

ResetLIF2 == Clear("LIF2", LIFPopulation2_reset(Self))

ResetLIF == Clear("LIF", LIFPopulation_reset(Self))

ResetDC == Clear("DC", DiehlAndCookPopulation_reset(Self))

Next ==
    \/ NewInput
    \/ NewIF
    \/ NewHLIF
    \/ NewLIF2
    \/ NewLIF
    \/ NewDC
    \/ SetTrainedTheta
    \/ ForwardInput
    \/ ForwardIF
    \/ ForwardHLIF
    \/ ForwardLIF2
    \/ ForwardLIF
    \/ ForwardDC
    \/ ResetInput
    \/ ResetIF
    \/ ResetHLIF
    \/ ResetLIF2
    \/ ResetLIF
    \/ ResetDC

Spec == Init /\ [][Next]_vars

--------------------------------------------------------------------------
\* The IFPopulation layers of the Tavanaei network: thresholds given in
\* tenths (0.9 above a unit spike's reach from rest 0 by none, 2.0 by one),
\* fed with unweighted spikes.

\* v_th in tenths of a unit.
UnitVthVals == {9, 20}
UnitRestVals == {0, 1}

NewIFUnit ==
    \E n \in NeuronCounts, tm \in Timings, v_th \in UnitVthVals,
       rest \in UnitRestVals, count_spike \in BOOLEAN :
        Construct("IF", IFPopulation_init(n, tm[1], Tenths(v_th), Fx(rest),
                                          tm[2], count_spike))

ForwardIFUnit ==
    \E inp \in InputsOver(neurons, UnitVals) :
        Step("IF", inp, IFPopulation_forward(Self, inp))

NextIF ==
    \/ NewIFUnit
    \/ ForwardIFUnit
    \/ ResetIF

SpecIF == Init /\ [][NextIF]_vars

--------------------------------------------------------------------------
\* What the properties below read off a state.

\* reset() of the class of the object.
ResetOf(o) ==
    CASE kind = "Input" -> InputPopulation_reset(o)
      [] kind = "IF" -> IFPopulation_reset(o)
      [] kind = "HLIF" -> HomoeostasisLIFPopulation_reset(o)
      [] kind = "LIF2" -> LIFPopulation2_reset(o)
      [] kind = "LIF" -> LIFPopulation_reset(o)
      [] kind = "DC" -> DiehlAndCookPopulation_reset(o)

Live == pc = "live"

Neurons == 1..neurons

\* ceil(tau_ref / dt): the number of steps a spike keeps its neuron refractory.
RefracSteps == (hp.tau_ref + hp.dt - 1) \div hp.dt

\* The threshold the next step tests the potential of neuron i against.
EffThreshold(i) ==
    CASE kind = "HLIF" -> hp.v_th + theta[i]
      [] kind \in {"LIF", "DC"} -> hp.v_th + hp.theta
      [] OTHER -> hp.v_th

\* The transition is a forward() call that got as far as writing s.
StepTaken == Len(out') = Len(out) + 1

\* Neuron i spiked at step j and at no step since.
LastSpike(i, j) ==
    /\ out[j][i] = 1
    /\ \A m \in (j + 1)..Len(out) : out[m][i] = 0

\* The step integrates the input into the resting potential of neuron i: the
\* spike test and the potential it leaves are those of rest + x.
InputAdded(i) ==
    LET vm == hp.rest + Fx(At(last'.x, i))
    IN  IF vm >= EffThreshold(i)
        THEN s'[i] = 1 /\ v'[i] = hp.rest
        ELSE s'[i] = 0 /\ v'[i] = vm

\* What C1 says of a spike of neuron i at step j when one more step is taken.
RefractoryThenResume(i, j) ==
    LET k == Len(out) + 1 - j
    IN  /\ k <= RefracSteps => v[i] = hp.rest /\ v'[i] = v[i]
        /\ k = RefracSteps + 1 => InputAdded(i)

--------------------------------------------------------------------------
\* C1 as stated: whenever neuron i of a thresholded population spiked at step
\* j, its v is unchanged by each of the next ceil(tau_ref/dt) steps and the
\* step after those adds the input to v again.  It fails where rest is at or
\* above the threshold: the resting neuron spikes again while refractory, and
\* that spike starts the refractory period anew.
C1_Original ==
    [][(Live /\ kind \in Thresholded /\ StepTaken) =>
          \A i \in Neurons : \A j \in 1..Len(out) :
              out[j][i] = 1 => RefractoryThenResume(i, j)]_vars

\* C1 (amended): counting from the latest spike of neuron i, v stays at rest
\* through each of the next ceil(tau_ref/dt) steps whatever the input, and the
\* step after those adds the input to v again.
C1_Refractory ==
    [][(Live /\ kind \in Thresholded /\ StepTaken) =>
          \A i \in Neurons : \A j \in 1..Len(out) :
              LastSpike(i, j) => RefractoryThenResume(i, j)]_vars

\* A neuron spiked, sat out a refractory period of at least one step, and the
\* step after it moved its potential off rest.
C1_Witness ==
    /\ Live /\ kind \in Thresholded /\ last.op = "forward" /\ last.ret = "ok"
    /\ RefracSteps >= 1
    /\ \E i \in Neurons : \E j \in 1..Len(out) :
          /\ LastSpike(i, j)
          /\ Len(out) = j + RefracSteps + 1
          /\ v[i] # hp.rest

\* C2: after a step of a thresholded population, a neuron whose spike state is
\* 1 has v = rest and refrac = tau_ref in the state that step leaves.
C2_SynchronousReset ==
    (Live /\ kind \in Thresholded /\ last.op = "forward") =>
        \A i \in Neurons :
            s[i] = 1 => v[i] = hp.rest /\ refrac[i] = hp.tau_ref

\* A step returned with a spike of a neuron whose input alone would have left
\* its potential off rest.
C2_Witness ==
    /\ Live /\ kind \in Thresholded /\ last.op = "forward" /\ last.ret = "ok"
    /\ hp.tau_ref > 0
    /\ \E i \in Neurons : s[i] = 1 /\ At(last.x, i) > 0

\* C3 as stated: after every step of every population, the Input population
\* included, each entry of s is 0 or 1.
C3_Original ==
    (Live /\ last.op = "forward" /\ last.ret = "ok") =>
        \A i \in Neurons : s[i] \in {0, 1}

\* C3 (amended): after every step of a thresholded population each entry of s
\* is 0 or 1; after a step of the Input population s is the input vector
\* itself, entry by entry.
C3_SpikeValues ==
    (Live /\ last.op = "forward") =>
        \A i \in Neurons :
            /\ kind \in Thresholded => s[i] \in {0, 1}
            /\ (kind = "Input" /\ last.ret = "ok") => s[i] = At(last.x, i)

\* A step of a thresholded population of two neurons left one spiking and the
\* other silent.
C3_Witness ==
    /\ Live /\ kind \in Thresholded /\ last.op = "forward" /\ last.ret = "ok"
    /\ neurons = 2 /\ s[1] = 1 /\ s[2] = 0

\* C4 as stated: no step of a population that keeps a spike count lowers the
\* count of any neuron, whatever the input.
C4_Original ==
    [][(Live /\ "spikecount" \in attrs /\ t' = t + 1) =>
          \A i \in Neurons : spikecount'[i] >= spikecount[i]]_vars

\* C4 (amended): no step of an IF, LIF2 or Homeostatic LIF population lowers a
\* spike count; a step of the Input population adds the input entry itself to
\* the count, which lowers it exactly when that entry is negative.
C4_CountMonotone ==
    [][(Live /\ "spikecount" \in attrs /\ t' = t + 1) =>
          \A i \in Neurons :
              IF kind = "Input" /\ last'.ret = "ok"
              THEN spikecount'[i] = spikecount[i] + At(last'.x, i)
              ELSE spikecount'[i] >= spikecount[i]]_vars

\* A thresholded population has counted two spikes of one neuron.
C4_Witness ==
    /\ Live /\ kind \in Thresholded /\ "spikecount" \in attrs
    /\ \E i \in Neurons : spikecount[i] >= 2

\* C5: reset() leaves the vectors it clears at their construction-time values:
\* Input x = 0; IF, LIF v = rest; LIF2 v = rest and spikecount = 0; Homeostatic
\* LIF v = rest and, with counting, spikecount = 0; Diehl&Cook v = rest, x = 0.
C5_ResetClears ==
    (Live /\ last.op = "reset" /\ last.ret = "ok") =>
        /\ kind \in Thresholded => v = Fill(neurons, hp.rest)
        /\ kind \in {"Input", "DC"} => x = Zeros(neurons)
        /\ kind = "LIF2" => spikecount = Zeros(neurons)
        /\ (kind = "HLIF" /\ hp.count_spike) => spikecount = Zeros(neurons)

\* reset() of a LIF2 population that had counted a spike.
C5_Witness ==
    /\ Live /\ kind = "LIF2" /\ last.op = "reset" /\ last.ret = "ok"
    /\ \E i \in Neurons : \E j \in 1..Len(out) : out[j][i] = 1

\* C6: reset() changes nothing outside the cleared set of its class: refrac,
\* s, theta and every hyperparameter stay, and so do the spike counts of the
\* Input and IF populations.
C6_ResetFrame ==
    [][(Live /\ last'.op = "reset") =>
          /\ hp' = hp /\ neurons' = neurons /\ attrs' = attrs
          /\ refrac' = refrac /\ s' = s /\ theta' = theta
          /\ kind = "Input" => v' = v
          /\ kind \notin {"Input", "DC"} => x' = x
          /\ ~(kind = "LIF2" \/ (kind = "HLIF" /\ hp.count_spike)) =>
                 spikecount' = spikecount]_vars

\* reset() of an IF population right after a counted spike: the neuron is
\* still refractory and its spike state and count are still there.
C6_Witness ==
    /\ Live /\ kind = "IF" /\ last.op = "reset" /\ "spikecount" \in attrs
    /\ \E i \in Neurons : s[i] = 1 /\ refrac[i] > 0 /\ spikecount[i] >= 1

\* C7: reset() is idempotent: in the state a reset() leaves, one more reset()
\* changes nothing.
C7_ResetIdempotent ==
    (Live /\ last.op = "reset" /\ last.ret = "ok") =>
        LET r == ResetOf(Self) IN r.ret = "ok" /\ r.self = Self

\* reset() of a Diehl&Cook population whose trace a spike had raised.
C7_Witness ==
    /\ Live /\ kind = "DC" /\ last.op = "reset" /\ last.ret = "ok"
    /\ \E i \in Neurons : \E j \in 1..Len(out) : out[j][i] = 1

\* C8 as stated, for the populations of one neuron or more: a step whose input
\* vector is not neuron_count long fails; it does not return.
C8_Original ==
    (Live /\ neurons > 0 /\ last.op = "forward" /\ Len(last.x) # neurons) =>
        last.ret = "error"

\* C9 as stated: no population of zero or fewer neurons is ever constructed.
C9_Original ==
    Live => neurons > 0

\* C10: no step and no reset() changes theta of a Homeostatic LIF population
\* built with frozen_threshold=True.
C10_FrozenTheta ==
    [][(Live /\ kind = "HLIF" /\ hp.frozen_th /\ last'.op \in {"forward", "reset"}) =>
          theta' = theta]_vars

\* A frozen population with trained thresholds stepped a neuron once without
\* and once with a spike.
C10_Witness ==
    /\ Live /\ kind = "HLIF" /\ hp.frozen_th /\ last.op = "forward"
    /\ \E i \in Neurons :
          /\ theta[i] # 0
          /\ s[i] = 1
          /\ \E j \in 1..Len(out) : out[j][i] = 0

--------------------------------------------------------------------------
\* The number of performed steps at which neuron i spiked.
SpikesOf(i) == Cardinality({j \in 1..Len(out) : out[j][i] = 1})

\* Every forward() call so far was given the same input vector, which fits
\* and lifts each resting neuron to the initial threshold v_th or above.
ConstantSuprathreshold ==
    /\ t >= 1
    /\ drive.const
    /\ Len(drive.x) = neurons
    /\ \A i \in Neurons :
          At(drive.x, i) > 0 /\ hp.rest + Fx(At(drive.x, i)) >= hp.v_th

\* C11 as stated: a Homeostatic LIF population with frozen_threshold=False,
\* driven by a constant suprathreshold input, holds in theta of each neuron
\* its starting value 0 plus theta_plus for every spike the neuron emitted,
\* and nothing else.  The code also adds exp(-dt/tau_theta) to theta at
\* every step the neuron does not spike.
C11_Original ==
    (Live /\ kind = "HLIF" /\ ~hp.frozen_th /\ ConstantSuprathreshold) =>
        \A i \in Neurons : theta[i] = hp.theta_plus * SpikesOf(i)

--------------------------------------------------------------------------
\* The scenario of C12: IFPopulation(1, v_th=0.9, rest=0, tau_ref=0), every
\* forward() call so far given the input [1].
Scenario12 ==
    /\ Live /\ kind = "IF" /\ neurons = 1
    /\ hp.dt = 1 /\ hp.v_th = Tenths(9) /\ hp.rest = 0 /\ hp.tau_ref = 0
    /\ ~hp.count_spike
    /\ last.op = "forward" /\ drive.const /\ drive.x = <<1>>

\* C12 as stated: each of the three steps of the scenario returns, and the
\* spikes of the steps are 0, 1, 1 in this order.
C12_Original ==
    Scenario12 =>
        /\ last.ret = "ok"
        /\ out = SubSeq(<< <<0>>, <<1>>, <<1>> >>, 1, t)

--------------------------------------------------------------------------
LIFFamily == {"HLIF", "LIF2", "LIF", "DC"}

\* The step multiplies the distance of v of neuron i from rest by
\* d = exp(-dt/tau_rc) = 2^-(dt/tau_rc).
Decayed(i) ==
    (v'[i] - hp.rest) * 2^(hp.dt \div hp.tau_rc) = v[i] - hp.rest

\* C13 as stated: a step of a population of the LIF family that gives a
\* neuron outside its refractory period the input zero leaves
\* v - rest = d * (v_before - rest).  It fails where the threshold lies below
\* rest: a potential below the threshold decays upwards across it, the neuron
\* spikes and v is set to rest.
C13_Original ==
    [][(Live /\ kind \in LIFFamily /\ StepTaken) =>
          \A i \in Neurons :
              (At(last'.x, i) = 0 /\ refrac[i] <= 0) => Decayed(i)]_vars

\* C13 (amended): the same of every such step at which the neuron does not
\* spike.
C13_LeakDecay ==
    [][(Live /\ kind \in LIFFamily /\ StepTaken) =>
          \A i \in Neurons :
              (At(last'.x, i) = 0 /\ refrac[i] <= 0 /\ s'[i] = 0) => Decayed(i)]_vars

\* A neuron that was off rest and not refractory has been stepped with the
\* input zero, did not spike, and is still off rest.
C13_Witness ==
    /\ Live /\ kind \in LIFFamily /\ last.op = "forward" /\ last.ret = "ok"
    /\ hp.rest < hp.v_th
    /\ \E i \in Neurons :
          /\ At(last.x, i) = 0
          /\ refrac[i] <= 0 - hp.dt
          /\ s[i] = 0
          /\ v[i] # hp.rest

--------------------------------------------------------------------------
\* Neuron i spiked with 1 at the first performed step and with 0 at every
\* step since.
SingleImpulse(i) ==
    /\ Len(out) >= 1
    /\ out[1][i] = 1
    /\ \A j \in 2..Len(out) : out[j][i] = 0

\* The trace of neuron i is scale_tr * d^t after step t = Len(out) - 1, with
\* d = exp(-dt/tau_tr) = 2^-(dt/tau_tr).
ImpulseTrace(i) ==
    x[i] * 2^((hp.dt \div hp.tau_tr) * (Len(out) - 1)) = hp.scale_tr

\* C14: in a population that keeps traces, a trace that is 0 before the first
\* step and whose neuron spikes with 1 at that step is scale_tr after it, and
\* from scale_tr * d^t it goes to scale_tr * d^(t+1) with every further step
\* at which the neuron's spike is 0.
C14_ImpulseResponse ==
    [][(Live /\ kind \in {"Input", "DC"} /\ hp.traces /\ StepTaken) =>
          \A i \in Neurons :
              /\ (Len(out) = 0 /\ x[i] = 0 /\ s'[i] = 1) => x'[i] = hp.scale_tr
              /\ (SingleImpulse(i) /\ ImpulseTrace(i) /\ s'[i] = 0) =>
                     ImpulseTrace(i)']_vars

\* Two steps after its only spike, the trace of a neuron of an input
\* population is a quarter of scale_tr.
C14_Witness ==
    /\ Live /\ kind = "Input" /\ hp.traces /\ last.op = "forward"
    /\ \E i \in Neurons :
          /\ SingleImpulse(i)
          /\ Len(out) = 3
          /\ x[i] * 4 = hp.scale_tr

\* The same of a Diehl&Cook population.
C14_WitnessDC ==
    /\ Live /\ kind = "DC" /\ hp.traces /\ last.op = "forward"
    /\ \E i \in Neurons :
          /\ SingleImpulse(i)
          /\ Len(out) = 3
          /\ x[i] * 4 = hp.scale_tr

--------------------------------------------------------------------------
\* The reference recurrence of the IF neuron, for neuron i and the input of
\* the step: integrate unless refractory, count refrac down, spike at
\* v >= v_th, and on a spike start the refractory period and return to rest.
IFReference(i) ==
    LET vi == v[i] + (IF refrac[i] <= 0 THEN Fx(At(last'.x, i)) ELSE 0)
        ri == refrac[i] - hp.dt
    IN  IF vi >= hp.v_th
        THEN s'[i] = 1 /\ refrac'[i] = hp.tau_ref /\ v'[i] = hp.rest
        ELSE s'[i] = 0 /\ refrac'[i] = ri /\ v'[i] = vi

\* C15: every step of an IF population takes v, refrac and s of every neuron
\* to what the reference recurrence gives: no leak, refrac decremented
\* whatever its value, a spike exactly when the updated v is v_th or more.
C15_IFRecurrence ==
    [][(Live /\ kind = "IF" /\ StepTaken) =>
          \A i \in Neurons : IFReference(i)]_vars

\* Two steps of a population of two neurons with rest 0 and v_th 2.0: the
\* first neuron took 1 at either step and spiked at the second with v equal
\* to v_th; the second took 0 and then 1, keeps v = 1 and has refrac at -2 dt.
C15_Witness ==
    /\ Live /\ kind = "IF" /\ neurons = 2
    /\ hp.rest = 0 /\ hp.v_th = Fx(2)
    /\ t = 2 /\ Len(out) = 2 /\ last.x = <<1, 1>>
    /\ out[1] = <<0, 0>> /\ s = <<1, 0>>
    /\ v = <<hp.rest, Fx(1)>>
    /\ refrac = <<hp.tau_ref, 0 - 2 * hp.dt>>

--------------------------------------------------------------------------
\* The potential a step of the LIF family tests for neuron i: the decayed
\* potential plus, outside the refractory period, the input.
Tested(i) ==
    (v[i] - hp.rest) \div 2^(hp.dt \div hp.tau_rc) + hp.rest
        + (IF refrac[i] <= 0 THEN Fx(At(last'.x, i)) ELSE 0)

\* exp(-dt/tau_theta), as a potential.
ExpTheta == Scale \div 2^(hp.dt \div hp.tau_theta)

--------------------------------------------------------------------------
\* C17 as stated, for the populations of one neuron or more: a step of an IF
\* population built without spike counting (the default) that is given an
\* input of neuron_count entries completes and returns (s, v).  __init__ sets self.count_spike only when the argument
\* is True, and forward() reads it at every step.
C17_Original ==
    (Live /\ kind = "IF" /\ neurons > 0 /\ ~hp.count_spike
          /\ last.op = "forward" /\ Len(last.x) = neurons) =>
        last.ret = "ok"

--------------------------------------------------------------------------
\* C18 as stated: the constructor of an input population with traces=False
\* and one neuron or more returns the population.  __init__
\* ends with reset(), which fills the trace x that was never registered.
C18_Original ==
    (kind = "Input" /\ last.op = "new" /\ neurons > 0 /\ ~hp.traces) =>
        (Live /\ last.ret = "ok")

--------------------------------------------------------------------------
\* rest of neuron i lies strictly below every threshold the neuron is tested
\* against: v_th, v_th plus the hyperparameter theta, or v_th plus the
\* per-neuron theta, which starts at 0 and grows unless it is frozen.
RestBelowThreshold(i) ==
    CASE kind = "HLIF" ->
             hp.rest < hp.v_th + (IF hp.frozen_th THEN theta[i] ELSE 0)
      [] kind \in {"LIF", "DC"} -> hp.theta >= 0 /\ hp.rest < hp.v_th + hp.theta
      [] OTHER -> hp.rest < hp.v_th

\* C19: in a thresholded population with dt > 0, tau_ref > 0 and rest below
\* the threshold, any two steps at which the same neuron spiked lie more than
\* ceil(tau_ref/dt) steps apart.
C19_SpikeSpacing ==
    (Live /\ kind \in Thresholded /\ hp.dt > 0 /\ hp.tau_ref > 0) =>
        \A i \in Neurons :
            RestBelowThreshold(i) =>
                \A j, m \in 1..Len(out) :
                    (j < m /\ out[j][i] = 1 /\ out[m][i] = 1) =>
                        m - j > RefracSteps

\* A neuron spiked, was silent for its refractory period of one step or more,
\* and spiked again at the first step after it.
C19_Witness ==
    /\ Live /\ kind \in Thresholded /\ hp.tau_ref > 0
    /\ \E i \in Neurons :
          /\ RestBelowThreshold(i)
          /\ \E j, m \in 1..Len(out) :
                /\ m - j = RefracSteps + 1
                /\ out[j][i] = 1 /\ out[m][i] = 1

--------------------------------------------------------------------------
\* C20: after a step of a thresholded population the potential of every
\* neuron is at rest or strictly below the threshold the step tested it
\* against, with theta as it was before the step.
C20_RestOrBelow ==
    [][(Live /\ kind \in Thresholded /\ StepTaken) =>
          \A i \in Neurons :
              v'[i] = hp.rest \/ v'[i] < EffThreshold(i)]_vars

\* A step left one neuron charged above rest without a spike and sent
\* another, which spiked, back to rest.
C20_Witness ==
    /\ Live /\ kind \in Thresholded /\ last.op = "forward"
    /\ Len(out) >= 1 /\ out[Len(out)] = s
    /\ hp.rest < hp.v_th
    /\ \E i, k \in Neurons :
          /\ s[i] = 0 /\ v[i] > hp.rest
          /\ s[k] = 1 /\ v[k] = hp.rest

====
